---- MODULE Spec2Model ----
(***************************************************************************)
(* Model of src/InvoiceExtractor.py: the regular-expression field          *)
(* extraction (extract_invoice_data), the duplicate / recurring / new      *)
(* routing of store_in_mongo over the two MongoDB collections, and the     *)
(* per-message loop of main.                                               *)
(*                                                                         *)
(* A Python str is modelled as a tuple of one-character strings, so that   *)
(* the regular expressions are computed character by character.            *)
(***************************************************************************)
EXTENDS Naturals, Sequences, FiniteSets, TLC

VARIABLES
    collection,            \* db["Invoices"]: the documents in insertion order
    recurring_collection,  \* db["RecurringInvoices"]: the documents in insertion order
    pc,                    \* pc[p]: where pipeline instance p stands in main / store_in_mongo
    email_uids,            \* email_uids[p]: the UIDs the for loop of main has still to visit
    text,                  \* text[p]: the joined OCR text handed to extract_invoice_data
    email_data,            \* email_data[p]: <<>> or <<d>>, the dict handed to store_in_mongo
    found,                 \* found[p]: outcome of the latest find_one of the running call
    printed,               \* printed[p]: the line the running store_in_mongo call printed
    entry                  \* entry[p]: the two collections as they were when the call began

vars == <<collection, recurring_collection, pc, email_uids, text, email_data,
          found, printed, entry>>

----------------------------------------------------------------------------
(* Bounds of the model *)

\* the main loop takes a further message only while the two collections
\* together hold fewer than MaxStored documents
MaxStored == 3

\* the extraction check enumerates every OCR text made of at most
\* MaxFragments fragments
MaxFragments == 5

----------------------------------------------------------------------------
(* Characters and strings *)

\* stands for the single character U+20AC (the euro sign)
Euro == "EUR"

Digits == {"0", "1", "2", "3", "4", "5", "6", "7", "8", "9"}

UpperSeq == <<"A", "B", "C", "D", "E", "F", "G", "H", "I", "J", "K", "L", "M",
              "N", "O", "P", "Q", "R", "S", "T", "U", "V", "W", "X", "Y", "Z">>

LowerSeq == <<"a", "b", "c", "d", "e", "f", "g", "h", "i", "j", "k", "l", "m",
              "n", "o", "p", "q", "r", "s", "t", "u", "v", "w", "x", "y", "z">>

Range(s) == {s[i] : i \in DOMAIN s}

Letters == Range(UpperSeq) \cup Range(LowerSeq)

\* \s of the re module, over the characters the model uses
Whitespace == {" ", "\n", "\t"}

\* \w of the re module, over the characters the model uses
WordChars == Letters \cup Digits \cup {"_"}

\* case folding of re.IGNORECASE
Lower(c) ==
    IF \E i \in DOMAIN UpperSeq : UpperSeq[i] = c
    THEN LowerSeq[CHOOSE i \in DOMAIN UpperSeq : UpperSeq[i] = c]
    ELSE c

\* the sentinel "Unknown"
Unknown == <<"U", "n", "k", "n", "o", "w", "n">>

Paid == <<"P", "a", "i", "d">>

Unpaid == <<"U", "n", "p", "a", "i", "d">>

Max(S) == CHOOSE x \in S : \A y \in S : y <= x

Min(S) == CHOOSE x \in S : \A y \in S : x <= y

\* t[i .. i+n-1] lies inside t and all its characters are in class C
RunOf(t, i, n, C) ==
    /\ i >= 1
    /\ i + n - 1 <= Len(t)
    /\ \A k \in i .. (i + n - 1) : t[k] \in C

\* t holds the characters of lit at position i, compared case-insensitively
LiteralAtIgnoreCase(t, i, lit) ==
    /\ i >= 1
    /\ i + Len(lit) - 1 <= Len(t)
    /\ \A k \in 1 .. Len(lit) : Lower(t[i + k - 1]) = Lower(lit[k])

\* re.search: the match starting at the leftmost position where one starts;
\* matches[i] is <<>> (no match starts at i) or <<group 1 of the match at i>>
Search(matches) ==
    LET starts == {i \in DOMAIN matches : matches[i] # <<>>}
    IN  IF starts = {} THEN <<>> ELSE matches[Min(starts)]

\* m.group(1) if m else "Unknown"
GroupOrUnknown(m) == IF m = <<>> THEN Unknown ELSE m[1]

----------------------------------------------------------------------------
(* r"([A-Z]{3,5}\d{6,8})" with re.IGNORECASE *)

\* the pairs <<letters, digits>> with which the pattern matches at i
InvoiceNumberFits(t, i) ==
    {f \in (3 .. 5) \X (6 .. 8) :
        /\ RunOf(t, i, f[1], Letters)
        /\ RunOf(t, i + f[1], f[2], Digits)}

\* greedy: the longest letter run that leads to a match, then the longest digit run
InvoiceNumberAt(t, i) ==
    LET fits == InvoiceNumberFits(t, i)
    IN  IF fits = {} THEN <<>>
        ELSE LET a == Max({f[1] : f \in fits})
                 b == Max({f[2] : f \in {g \in fits : g[1] = a}})
             IN  <<SubSeq(t, i, i + a + b - 1)>>

----------------------------------------------------------------------------
(* r"€\s?([\d,]+\.\d{2})" *)

\* the lengths n >= 1 of a [\d,]+ run at j that is followed by \.\d{2}
AmountFits(t, j) ==
    {n \in 1 .. Len(t) :
        /\ RunOf(t, j, n, Digits \cup {","})
        /\ RunOf(t, j + n, 1, {"."})
        /\ RunOf(t, j + n + 1, 2, Digits)}

\* the group when it starts at j: greedy, the longest run that leads to a match
AmountGroupAt(t, j) ==
    IF AmountFits(t, j) = {} THEN <<>>
    ELSE <<SubSeq(t, j, j + Max(AmountFits(t, j)) + 2)>>

\* the euro sign at i, \s? tried with the whitespace character first, then without
AmountAt(t, i) ==
    IF ~RunOf(t, i, 1, {Euro}) THEN <<>>
    ELSE IF RunOf(t, i + 1, 1, Whitespace) /\ AmountGroupAt(t, i + 2) # <<>>
         THEN AmountGroupAt(t, i + 2)
         ELSE AmountGroupAt(t, i + 1)

----------------------------------------------------------------------------
(* r"Due Date[:\s]*(\d{2}/\d{2}/\d{4})" with re.IGNORECASE *)

DueDateLabel == <<"D", "u", "e", " ", "D", "a", "t", "e">>

\* \d{2}/\d{2}/\d{4} at j
DateAt(t, j) ==
    /\ RunOf(t, j, 2, Digits)
    /\ RunOf(t, j + 2, 1, {"/"})
    /\ RunOf(t, j + 3, 2, Digits)
    /\ RunOf(t, j + 5, 1, {"/"})
    /\ RunOf(t, j + 6, 4, Digits)

\* the numbers n >= 0 of separators [:\s]* after the label with a date behind them
DueDateFits(t, i) ==
    {n \in 0 .. Len(t) :
        /\ RunOf(t, i + Len(DueDateLabel), n, Whitespace \cup {":"})
        /\ DateAt(t, i + Len(DueDateLabel) + n)}

DueDateAt(t, i) ==
    IF ~LiteralAtIgnoreCase(t, i, DueDateLabel) \/ DueDateFits(t, i) = {} THEN <<>>
    ELSE LET j == i + Len(DueDateLabel) + Max(DueDateFits(t, i))
         IN  <<SubSeq(t, j, j + 9)>>

----------------------------------------------------------------------------
(* r"\bPaid\b" with re.IGNORECASE *)

\* \b before position i: exactly one of t[i-1], t[i] is a word character
WordBoundary(t, i) ==
    LET before == i - 1 >= 1 /\ i - 1 <= Len(t) /\ t[i - 1] \in WordChars
        after  == i >= 1 /\ i <= Len(t) /\ t[i] \in WordChars
    IN  before # after

PaidAt(t, i) ==
    IF /\ LiteralAtIgnoreCase(t, i, Paid)
       /\ WordBoundary(t, i)
       /\ WordBoundary(t, i + Len(Paid))
    THEN <<SubSeq(t, i, i + Len(Paid) - 1)>>
    ELSE <<>>

----------------------------------------------------------------------------
(* extract_invoice_data *)

extract_invoice_data(t) ==
    [invoice_number |->
         GroupOrUnknown(Search([i \in 1 .. Len(t) |-> InvoiceNumberAt(t, i)])),
     amount |->
         GroupOrUnknown(Search([i \in 1 .. Len(t) |-> AmountAt(t, i)])),
     due_date |->
         GroupOrUnknown(Search([i \in 1 .. Len(t) |-> DueDateAt(t, i)])),
     payment_status |->
         IF Search([i \in 1 .. Len(t) |-> PaidAt(t, i)]) # <<>> THEN Paid ELSE Unpaid]

----------------------------------------------------------------------------
(* The mailbox and the OCR collaborator: what main can be handed *)

\* the pipeline instances (processes running main); the serial
\* specification runs instance 1 alone
Procs == {1, 2}

Senders == {"billing@acme.example", "accounts@globex.example"}

\* what search_emails can return: message numbers in ascending order
SearchResults == {<<>>, <<"1">>, <<"2">>, <<"1", "2">>}

\* "Invoice ABC123456 "
InvoiceLine ==
    <<"I", "n", "v", "o", "i", "c", "e", " ", "A", "B", "C", "1", "2", "3",
      "4", "5", "6", " ">>

\* "Due Date: 01/05/2025 "
DueDateLine ==
    <<"D", "u", "e", " ", "D", "a", "t", "e", ":", " ", "0", "1", "/", "0",
      "5", "/", "2", "0", "2", "5", " ">>

\* "Total €150.00"
TotalLine ==
    <<"T", "o", "t", "a", "l", " ", Euro, "1", "5", "0", ".", "0", "0">>

\* OCR texts of the serial and concurrent specifications: a full invoice, one
\* without a due date, one without an invoice number, and a scan that
\* yielded no text at all
SampleTexts ==
    {InvoiceLine \o DueDateLine \o TotalLine,
     InvoiceLine \o TotalLine,
     DueDateLine \o TotalLine,
     <<>>}

\* a message as the loop body of main sees it: its sender, the OCR text joined
\* over its attachments, and what extract_invoice_data makes of that text
Scanned(senders, texts) ==
    {[sender |-> s, text |-> t, invoice_details |-> extract_invoice_data(t)] :
        s \in senders, t \in texts}

Mailbox == Scanned(Senders, SampleTexts)

\* the one inbox both instances of the concurrent specification read: message
\* 1 is a full invoice, message 2 a later invoice of the same sender and
\* amount whose number the OCR missed
SharedInbox ==
    [uid \in {"1", "2"} |->
        Scanned({"billing@acme.example"},
                {IF uid = "1" THEN InvoiceLine \o DueDateLine \o TotalLine
                              ELSE DueDateLine \o TotalLine})]

\* the pieces the enumerated OCR texts are made of: the euro sign, a blank, a
\* comma, a digit, a dot with two digits, and a character no pattern knows
ScanFragments == {<<Euro>>, <<" ">>, <<",">>, <<"1">>, <<".", "0", "0">>, <<"x">>}

RECURSIVE Join(_)
\* the fragments of fs, concatenated
Join(fs) == IF fs = <<>> THEN <<>> ELSE Head(fs) \o Join(Tail(fs))

\* every text of at most MaxFragments fragments
ScannedTexts ==
    {Join(fs) : fs \in UNION {[1 .. n -> ScanFragments] : n \in 0 .. MaxFragments}}

ScannedMailbox == Scanned({"billing@acme.example"}, ScannedTexts)

----------------------------------------------------------------------------
(* The MongoDB collections *)

\* a document matches a query dict when it has the query's value in each field
Matches(doc, query) == \A f \in DOMAIN query : doc[f] = query[f]

\* find_one: <<>> (None) or <<the first matching document>>
find_one(coll, query) ==
    LET hits == {i \in DOMAIN coll : Matches(coll[i], query)}
    IN  IF hits = {} THEN <<>> ELSE <<coll[Min(hits)]>>

\* a find_one call returns its result, or raises when the server cannot be
\* reached; the outcome is kept together with the query that was asked
FindOneOutcomes(coll, query) ==
    {[query |-> query, raised |-> FALSE, doc |-> find_one(coll, query)],
     [query |-> query, raised |-> TRUE, doc |-> <<>>]}

\* no find_one has been called yet
NoLookup == [query |-> <<>>, raised |-> FALSE, doc |-> <<>>]

\* variant of insert_one: an atomic insert that refuses a stored identity key
InsertUnlessPresent(coll, doc) ==
    IF \E i \in DOMAIN coll :
          /\ coll[i].email_uid = doc.email_uid
          /\ coll[i].sender = doc.sender
          /\ coll[i].invoice_number = doc.invoice_number
    THEN coll
    ELSE Append(coll, doc)

\* insert_one
insert_one(coll, doc) == Append(coll, doc)

----------------------------------------------------------------------------
(* store_in_mongo *)

DuplicateLine == "Duplicate invoice detected. Skipping storage."

RecurringLine == "Stored in RecurringInvoices."

InvoicesLine == "Stored in Invoices."

NoLine == ""

\* variant of DuplicateQuery: the message UID left out of the query
DuplicateQueryWithoutUid(d) ==
    [sender |-> d.sender, invoice_number |-> d.invoice_number]

\* the query dict of the first find_one
DuplicateQuery(d) ==
    [email_uid |-> d.email_uid, sender |-> d.sender,
     invoice_number |-> d.invoice_number]

\* the query dict of the second find_one
RecurringQuery(d) == [sender |-> d.sender, amount |-> d.amount]

\* variant of AfterDuplicateLookup: the return after the print is missing
AfterDuplicateLookupNoReturn(out) ==
    IF out.raised THEN "raised" ELSE "find_rec"

\* where the call goes after the first find_one: the exception leaves the
\* call, a document means return, None goes on to the second find_one
AfterDuplicateLookup(out) ==
    IF out.raised THEN "raised"
    ELSE IF out.doc # <<>> THEN "ret"
    ELSE "find_rec"

\* variant of AfterRecurringLookup: the due_date test is missing
AfterRecurringLookupIgnoringDueDate(out, d) ==
    IF out.raised THEN "raised"
    ELSE IF out.doc # <<>> THEN "insert_rec"
    ELSE "insert"

\* variant of AfterRecurringLookup: the exception is caught and read as None
AfterRecurringLookupSwallowingError(out, d) ==
    IF out.doc # <<>> /\ d.due_date # Unknown THEN "insert_rec" ELSE "insert"

\* where the call goes after the second find_one: the exception leaves the
\* call, otherwise the branch of `find_one(...) and due_date != "Unknown"`
AfterRecurringLookup(out, d) ==
    IF out.raised THEN "raised"
    ELSE IF out.doc # <<>> /\ d.due_date # Unknown THEN "insert_rec"
    ELSE "insert"

----------------------------------------------------------------------------
(* The state after construction: two empty collections, no instance running *)

NoEntry == [collection |-> <<>>, recurring_collection |-> <<>>]

Init ==
    /\ collection = <<>>
    /\ recurring_collection = <<>>
    /\ pc = [p \in Procs |-> "idle"]
    /\ email_uids = [p \in Procs |-> <<>>]
    /\ text = [p \in Procs |-> <<>>]
    /\ email_data = [p \in Procs |-> <<>>]
    /\ found = [p \in Procs |-> NoLookup]
    /\ printed = [p \in Procs |-> NoLine]
    /\ entry = [p \in Procs |-> NoEntry]

----------------------------------------------------------------------------
(* main *)

\* a run of main begins (also after a run that ended with an exception):
\* search_emails hands it the message numbers to visit
Main(p) ==
    /\ pc[p] \in {"idle", "raised"}
    /\ \E uids \in SearchResults : email_uids' = [email_uids EXCEPT ![p] = uids]
    /\ pc' = [pc EXCEPT ![p] = "loop"]
    /\ text' = [text EXCEPT ![p] = <<>>]
    /\ email_data' = [email_data EXCEPT ![p] = <<>>]
    /\ found' = [found EXCEPT ![p] = NoLookup]
    /\ printed' = [printed EXCEPT ![p] = NoLine]
    /\ entry' = [entry EXCEPT ![p] = NoEntry]
    /\ UNCHANGED <<collection, recurring_collection>>

\* process_email returned None: continue with the next message
SkipEmail(p) ==
    /\ pc[p] = "loop"
    /\ email_uids[p] # <<>>
    /\ email_uids' = [email_uids EXCEPT ![p] = Tail(email_uids[p])]
    /\ UNCHANGED <<collection, recurring_collection, pc, text, email_data,
                   found, printed, entry>>

\* email_data.update(invoice_details)
Update(uid, sender, details) ==
    [email_uid      |-> uid,
     sender         |-> sender,
     invoice_number |-> details.invoice_number,
     amount         |-> details.amount,
     due_date       |-> details.due_date,
     payment_status |-> details.payment_status]

\* the loop body up to the call of store_in_mongo, for a message of `mailbox`:
\* process_email, the OCR text, extract_invoice_data, update
ProcessEmailFrom(p, mailbox) ==
    /\ pc[p] = "loop"
    /\ email_uids[p] # <<>>
    /\ Len(collection) + Len(recurring_collection) < MaxStored
    /\ \E msg \in mailbox :
          /\ text' = [text EXCEPT ![p] = msg.text]
          /\ email_data' = [email_data EXCEPT ![p] =
                 <<Update(Head(email_uids[p]), msg.sender, msg.invoice_details)>>]
    /\ email_uids' = [email_uids EXCEPT ![p] = Tail(email_uids[p])]
    /\ pc' = [pc EXCEPT ![p] = "find_dup"]
    /\ found' = [found EXCEPT ![p] = NoLookup]
    /\ printed' = [printed EXCEPT ![p] = NoLine]
    /\ entry' = [entry EXCEPT ![p] =
           [collection |-> collection,
            recurring_collection |-> recurring_collection]]
    /\ UNCHANGED <<collection, recurring_collection>>

ProcessEmail(p) == ProcessEmailFrom(p, Mailbox)

ProcessSharedEmail(p) ==
    /\ email_uids[p] # <<>>
    /\ ProcessEmailFrom(p, SharedInbox[Head(email_uids[p])])

ProcessScannedEmail(p) == ProcessEmailFrom(p, ScannedMailbox)

\* variant of FindDuplicate: the lookup asks the recurring collection
FindDuplicateInRecurring(p) ==
    /\ pc[p] = "find_dup"
    /\ \E out \in FindOneOutcomes(recurring_collection,
                                  DuplicateQuery(email_data[p][1])) :
          /\ found' = [found EXCEPT ![p] = out]
          /\ pc' = [pc EXCEPT ![p] = AfterDuplicateLookup(out)]
          /\ printed' = [printed EXCEPT ![p] =
                 IF AfterDuplicateLookup(out) = "ret" THEN DuplicateLine ELSE @]
    /\ UNCHANGED <<collection, recurring_collection, email_uids, text,
                   email_data, entry>>

\* store_in_mongo, the first find_one and its if
FindDuplicate(p) ==
    /\ pc[p] = "find_dup"
    /\ \E out \in FindOneOutcomes(collection, DuplicateQuery(email_data[p][1])) :
          /\ found' = [found EXCEPT ![p] = out]
          /\ pc' = [pc EXCEPT ![p] = AfterDuplicateLookup(out)]
          /\ printed' = [printed EXCEPT ![p] =
                 IF AfterDuplicateLookup(out) = "ret" THEN DuplicateLine ELSE @]
    /\ UNCHANGED <<collection, recurring_collection, email_uids, text,
                   email_data, entry>>

\* store_in_mongo, the second find_one and its if
FindRecurring(p) ==
    /\ pc[p] = "find_rec"
    /\ \E out \in FindOneOutcomes(collection, RecurringQuery(email_data[p][1])) :
          /\ found' = [found EXCEPT ![p] = out]
          /\ pc' = [pc EXCEPT ![p] = AfterRecurringLookup(out, email_data[p][1])]
    /\ UNCHANGED <<collection, recurring_collection, email_uids, text,
                   email_data, printed, entry>>

\* variant of InsertRecurring: the insert goes to the primary collection
InsertRecurringIntoInvoices(p) ==
    /\ pc[p] = "insert_rec"
    /\ collection' = insert_one(collection, email_data[p][1])
    /\ printed' = [printed EXCEPT ![p] = RecurringLine]
    /\ pc' = [pc EXCEPT ![p] = "ret"]
    /\ UNCHANGED <<recurring_collection, email_uids, text, email_data, found,
                   entry>>

\* store_in_mongo, the if branch: recurring_collection.insert_one and print
InsertRecurring(p) ==
    /\ pc[p] = "insert_rec"
    /\ recurring_collection' = insert_one(recurring_collection, email_data[p][1])
    /\ printed' = [printed EXCEPT ![p] = RecurringLine]
    /\ pc' = [pc EXCEPT ![p] = "ret"]
    /\ UNCHANGED <<collection, email_uids, text, email_data, found, entry>>

\* variant of InsertInvoice: the dict is inserted into both collections
InsertInvoiceIntoBoth(p) ==
    /\ pc[p] = "insert"
    /\ collection' = insert_one(collection, email_data[p][1])
    /\ recurring_collection' = insert_one(recurring_collection, email_data[p][1])
    /\ printed' = [printed EXCEPT ![p] = InvoicesLine]
    /\ pc' = [pc EXCEPT ![p] = "ret"]
    /\ UNCHANGED <<email_uids, text, email_data, found, entry>>

\* store_in_mongo, the else branch: collection.insert_one and print
InsertInvoice(p) ==
    /\ pc[p] = "insert"
    /\ collection' = insert_one(collection, email_data[p][1])
    /\ printed' = [printed EXCEPT ![p] = InvoicesLine]
    /\ pc' = [pc EXCEPT ![p] = "ret"]
    /\ UNCHANGED <<recurring_collection, email_uids, text, email_data, found,
                   entry>>

\* store_in_mongo has returned: back to the for (extracted_invoices, the list
\* main appends to here, is only printed at the end and is left out)
Return(p) ==
    /\ pc[p] = "ret"
    /\ pc' = [pc EXCEPT ![p] = "loop"]
    /\ UNCHANGED <<collection, recurring_collection, email_uids, text,
                   email_data, found, printed, entry>>

\* the for loop is exhausted: the final print, mail.logout, main returns
Finish(p) ==
    /\ pc[p] = "loop"
    /\ email_uids[p] = <<>>
    /\ pc' = [pc EXCEPT ![p] = "idle"]
    /\ UNCHANGED <<collection, recurring_collection, email_uids, text,
                   email_data, found, printed, entry>>

----------------------------------------------------------------------------
(* Specifications *)

\* one pipeline instance: every message is fully processed before the next
Next ==
    \/ Main(1)
    \/ SkipEmail(1)
    \/ ProcessEmail(1)
    \/ FindDuplicate(1)
    \/ FindRecurring(1)
    \/ InsertRecurring(1)
    \/ InsertInvoice(1)
    \/ Return(1)
    \/ Finish(1)

Spec == Init /\ [][Next]_vars

\* two pipeline instances against the same two collections, interleaved at
\* every database call
NextConcurrent ==
    \E p \in Procs :
        \/ Main(p)
        \/ SkipEmail(p)
        \/ ProcessSharedEmail(p)
        \/ FindDuplicate(p)
        \/ FindRecurring(p)
        \/ InsertRecurring(p)
        \/ InsertInvoice(p)
        \/ Return(p)
        \/ Finish(p)

SpecConcurrent == Init /\ [][NextConcurrent]_vars

\* extract_invoice_data applied to every text of ScannedTexts
NextExtract ==
    \/ Main(1)
    \/ SkipEmail(1)
    \/ ProcessScannedEmail(1)

SpecExtract == Init /\ [][NextExtract]_vars

----------------------------------------------------------------------------
(* Vocabulary of the properties *)

\* the dict instance p is working on
Data(p) == email_data[p][1]

\* instance p is inside store_in_mongo, or has just left it
InCall(p) == pc[p] \in {"find_dup", "find_rec", "insert_rec", "insert", "ret", "raised"}

\* the identity key: (message_id, sender, invoice_number)
SameIdentity(a, b) ==
    /\ a.email_uid = b.email_uid
    /\ a.sender = b.sender
    /\ a.invoice_number = b.invoice_number

HoldsIdentity(coll, d) == \E i \in DOMAIN coll : SameIdentity(coll[i], d)

\* the recurrence key: (sender, amount)
HoldsSenderAmount(coll, d) ==
    \E i \in DOMAIN coll : coll[i].sender = d.sender /\ coll[i].amount = d.amount

\* neither collection differs from what it was when the call of p began
NothingInserted(p) ==
    /\ collection = entry[p].collection
    /\ recurring_collection = entry[p].recurring_collection

\* the call of p added its dict to the primary collection and nothing else
InsertedIntoInvoicesOnly(p) ==
    /\ collection = Append(entry[p].collection, Data(p))
    /\ recurring_collection = entry[p].recurring_collection

\* the call of p added its dict to the recurring collection and nothing else
InsertedIntoRecurringOnly(p) ==
    /\ collection = entry[p].collection
    /\ recurring_collection = Append(entry[p].recurring_collection, Data(p))

----------------------------------------------------------------------------
(* Properties of store_in_mongo under serial execution (Spec) *)

\* C1: a candidate whose (email_uid, sender, invoice_number) is in the primary
\* collection when store_in_mongo begins never gets past the first lookup:
\* the call returns with the Duplicate line printed (or the lookup raised)
\* and neither collection has changed, whatever its sender, amount, due_date.
DuplicatePrecedence ==
    \A p \in Procs :
        (InCall(p) /\ HoldsIdentity(entry[p].collection, Data(p))) =>
            /\ pc[p] \in {"find_dup", "ret", "raised"}
            /\ NothingInserted(p)
            /\ pc[p] = "ret" => printed[p] = DuplicateLine

\* C1 witness: a Duplicate verdict for a candidate with a resolved due date
\* whose (sender, amount) is in the primary collection as well
DuplicatePrecedenceWitness ==
    /\ pc[1] = "ret"
    /\ printed[1] = DuplicateLine
    /\ HoldsIdentity(entry[1].collection, Data(1))
    /\ HoldsSenderAmount(entry[1].collection, Data(1))
    /\ Data(1).due_date # Unknown
    /\ NothingInserted(1)

\* C2: a candidate with due_date Unknown and no identity match in the primary
\* collection is stored as New: when the call has returned, the Invoices line
\* is printed, the primary collection has gained exactly the candidate and
\* the recurring collection is as it was.
UnknownDueDateIsNew ==
    \A p \in Procs :
        (/\ pc[p] = "ret"
         /\ Data(p).due_date = Unknown
         /\ ~HoldsIdentity(entry[p].collection, Data(p))) =>
            /\ printed[p] = InvoicesLine
            /\ InsertedIntoInvoicesOnly(p)

\* C2 witness: such a candidate whose (sender, amount) is in the primary
\* collection, stored as New
UnknownDueDateIsNewWitness ==
    /\ pc[1] = "ret"
    /\ Data(1).due_date = Unknown
    /\ ~HoldsIdentity(entry[1].collection, Data(1))
    /\ HoldsSenderAmount(entry[1].collection, Data(1))
    /\ printed[1] = InvoicesLine
    /\ InsertedIntoInvoicesOnly(1)

\* C3: a candidate with no identity match, a (sender, amount) match in the
\* primary collection and a resolved due date is stored as Recurring: the
\* RecurringInvoices line is printed, the recurring collection has gained
\* exactly the candidate and the primary collection is as it was.
RecurringRouting ==
    \A p \in Procs :
        (/\ pc[p] = "ret"
         /\ ~HoldsIdentity(entry[p].collection, Data(p))
         /\ HoldsSenderAmount(entry[p].collection, Data(p))
         /\ Data(p).due_date # Unknown) =>
            /\ printed[p] = RecurringLine
            /\ InsertedIntoRecurringOnly(p)

\* C3 witness: a Recurring verdict with the candidate in the recurring
\* collection only
RecurringRoutingWitness ==
    /\ pc[1] = "ret"
    /\ ~HoldsIdentity(entry[1].collection, Data(1))
    /\ HoldsSenderAmount(entry[1].collection, Data(1))
    /\ Data(1).due_date # Unknown
    /\ printed[1] = RecurringLine
    /\ InsertedIntoRecurringOnly(1)
    /\ entry[1].collection # <<>>

\* C4: a call that has returned printed exactly one of the three lines, and
\* performed no insert_one for Duplicate, exactly one (into the primary
\* collection) for New, exactly one (into the recurring collection) for
\* Recurring; never one into each.
OneInsertionOrNone ==
    \A p \in Procs :
        pc[p] = "ret" =>
            \/ printed[p] = DuplicateLine /\ NothingInserted(p)
            \/ printed[p] = InvoicesLine /\ InsertedIntoInvoicesOnly(p)
            \/ printed[p] = RecurringLine /\ InsertedIntoRecurringOnly(p)

\* C4 witness: a New verdict against collections that both held documents,
\* with one document more in the two collections together
OneInsertionOrNoneWitness ==
    /\ pc[1] = "ret"
    /\ printed[1] = InvoicesLine
    /\ entry[1].collection # <<>>
    /\ entry[1].recurring_collection # <<>>
    /\ Len(collection) + Len(recurring_collection)
         = Len(entry[1].collection) + Len(entry[1].recurring_collection) + 1

\* C5: processing a record again after an earlier processing of the same
\* record has finished is a Duplicate and changes neither collection.  The
\* collections start empty and only store_in_mongo inserts, so a dict found
\* in either collection when the call begins was processed before.
ReprocessingIsDuplicate ==
    \A p \in Procs :
        (/\ pc[p] = "ret"
         /\ Data(p) \in Range(entry[p].collection)
                          \cup Range(entry[p].recurring_collection)) =>
            /\ printed[p] = DuplicateLine
            /\ NothingInserted(p)

\* C6: when a find_one of the call raised, the call has ended with the
\* exception, it printed no verdict and neither collection has changed.
LookupFailurePropagates ==
    \A p \in Procs :
        found[p].raised =>
            /\ pc[p] = "raised"
            /\ printed[p] = NoLine
            /\ NothingInserted(p)

\* C6 witness: the second lookup raised for a candidate that a "not found"
\* answer would have stored
LookupFailurePropagatesWitness ==
    /\ pc[1] = "raised"
    /\ found[1].raised
    /\ found[1].query = RecurringQuery(Data(1))
    /\ HoldsSenderAmount(collection, Data(1))
    /\ NothingInserted(1)

\* C8: a Duplicate verdict always rests on a stored document of the same
\* message; and a candidate with invoice_number Unknown, processed when the
\* primary collection holds documents of other messages only, is stored (as
\* New or Recurring), also when one of them has invoice_number Unknown and
\* the same sender, amount and due_date.
UnknownNumbersAcrossMessages ==
    \A p \in Procs :
        pc[p] = "ret" =>
            /\ printed[p] = DuplicateLine =>
                  /\ found[p].doc # <<>>
                  /\ found[p].doc[1].email_uid = Data(p).email_uid
            /\ (/\ Data(p).invoice_number = Unknown
                /\ \A i \in DOMAIN entry[p].collection :
                      entry[p].collection[i].email_uid # Data(p).email_uid) =>
                  \/ printed[p] = InvoicesLine /\ InsertedIntoInvoicesOnly(p)
                  \/ printed[p] = RecurringLine /\ InsertedIntoRecurringOnly(p)

\* C8 witness: the candidate and a stored document of another message agree
\* on sender, amount and due_date and both have invoice_number Unknown, and
\* the candidate has been stored
UnknownNumbersAcrossMessagesWitness ==
    /\ pc[1] = "ret"
    /\ Data(1).invoice_number = Unknown
    /\ printed[1] \in {InvoicesLine, RecurringLine}
    /\ \A i \in DOMAIN entry[1].collection :
          entry[1].collection[i].email_uid # Data(1).email_uid
    /\ \E i \in DOMAIN entry[1].collection :
          /\ entry[1].collection[i].invoice_number = Unknown
          /\ entry[1].collection[i].sender = Data(1).sender
          /\ entry[1].collection[i].amount = Data(1).amount
          /\ entry[1].collection[i].due_date = Data(1).due_date
    /\ Len(collection) + Len(recurring_collection)
         = Len(entry[1].collection) + Len(entry[1].recurring_collection) + 1

\* C10: under serial execution from empty collections, no two documents of
\* the primary collection have the same (email_uid, sender, invoice_number).
PrimaryKeyUnique ==
    \A i, j \in DOMAIN collection :
        i # j => ~SameIdentity(collection[i], collection[j])

\* C10 witness: a second processing of a stored key has been turned away
\* while the primary collection holds several documents
PrimaryKeyUniqueWitness ==
    /\ Len(collection) >= 2
    /\ pc[1] = "ret"
    /\ printed[1] = DuplicateLine
    /\ HoldsIdentity(collection, Data(1))

----------------------------------------------------------------------------
(* The check-then-act gap (SpecConcurrent) *)

\* both instances have returned from a call on the same identity key, and
\* each was told "Stored in Invoices."
BothStoredAsNew ==
    /\ pc[1] = "ret"
    /\ pc[2] = "ret"
    /\ SameIdentity(Data(1), Data(2))
    /\ printed[1] = InvoicesLine
    /\ printed[2] = InvoicesLine

\* C9: nothing between the duplicate check and the insert stops the second
\* writer: whenever both instances got past the check for the same identity
\* key and report the record stored, the primary collection holds that key
\* twice.
CheckThenActGap ==
    BothStoredAsNew =>
        Cardinality({i \in DOMAIN collection :
                        SameIdentity(collection[i], Data(1))}) >= 2

\* C9 witness: the interleaving exists; both passed the check against
\* collections without the key, and the key is stored twice
CheckThenActGapWitness ==
    /\ BothStoredAsNew
    /\ ~HoldsIdentity(entry[1].collection, Data(1))
    /\ ~HoldsIdentity(entry[2].collection, Data(2))
    /\ Cardinality({i \in DOMAIN collection :
                       SameIdentity(collection[i], Data(1))}) = 2

----------------------------------------------------------------------------
(* The amount pattern (SpecExtract) *)

\* digits(,digits)*.dd : non-empty digit groups separated by single commas,
\* a dot, exactly two digits
WellFormedAmount(a) ==
    LET n == Len(a)
    IN  /\ n >= 4
        /\ a[n - 2] = "."
        /\ a[n - 1] \in Digits
        /\ a[n] \in Digits
        /\ \A i \in 1 .. (n - 3) : a[i] \in Digits \cup {","}
        /\ a[1] \in Digits
        /\ a[n - 3] \in Digits
        /\ \A i \in 1 .. (n - 4) : ~(a[i] = "," /\ a[i + 1] = ",")

\* a stands in t at position j
OccursAt(t, j, a) ==
    /\ j >= 1
    /\ j + Len(a) - 1 <= Len(t)
    /\ SubSeq(t, j, j + Len(a) - 1) = a

\* the positions right after the euro sign at i, and after one whitespace
\* character behind it
AfterEuro(t, i) ==
    {i + 1} \cup (IF i + 1 <= Len(t) /\ t[i + 1] \in Whitespace THEN {i + 2} ELSE {})

\* a well-formed amount stands right behind the euro sign at i
WellFormedAmountFollows(t, i) ==
    \E j \in AfterEuro(t, i) : \E n \in 4 .. Len(t) :
        j + n - 1 <= Len(t) /\ WellFormedAmount(SubSeq(t, j, j + n - 1))

\* a is the amount behind the first euro sign that a well-formed amount follows
FirstEuroAmount(t, a) ==
    \E i \in 1 .. Len(t) :
        /\ t[i] = Euro
        /\ \E j \in AfterEuro(t, i) : OccursAt(t, j, a)
        /\ \A k \in 1 .. (i - 1) : ~(t[k] = Euro /\ WellFormedAmountFollows(t, k))

\* C7: the amount extract_invoice_data returns is Unknown, or a string
\* digits(,digits)*.dd without the euro sign that is the first
\* euro-sign-prefixed occurrence of that form in the text.
AmountShape ==
    \A p \in Procs :
        pc[p] = "find_dup" =>
            \/ Data(p).amount = Unknown
            \/ /\ WellFormedAmount(Data(p).amount)
               /\ Euro \notin Range(Data(p).amount)
               /\ FirstEuroAmount(text[p], Data(p).amount)

====
